---------------------------- MODULE Spec2Model ----------------------------
(***************************************************************************)
(* Bank policy chatbot: QueryHandler (src/query_handler.py) on top of      *)
(* PolicyRAGSystem (src/rag_system.py).                                    *)
(*                                                                         *)
(* A text is a sequence of characters, each character a one-character      *)
(* string; a code point outside ASCII is written "U+XXXX" and is one       *)
(* character.  A Python dict is a record whose field keys is the set of    *)
(* the keys present.  The user directory (authenticator), the retrieval    *)
(* capabilities and the LLM provider are external: every call to one of    *)
(* them is a choice among the results it can give, a raised exception      *)
(* included.                                                               *)
(***************************************************************************)
EXTENDS Integers, Sequences, FiniteSets, TLC

VARIABLES
    user,         \* QueryHandler.user
    sessionUser,  \* st.session_state.user
    caller,       \* QueryHandler.user when the call at hand began
    llm_ready,    \* PolicyRAGSystem.llm_ready
    chain,        \* PolicyRAGSystem.chain is set
    data_loader,  \* PolicyRAGSystem.data_loader is set
    pending,      \* a handle_query call has returned and process_query holds its result
    query,        \* the argument of that call
    outcome,      \* what the call gave: a returned text or a raised exception
    intent,       \* the branch of handle_query the call took
    trace,        \* the external calls the call made, in order
    responses,    \* the values query_policy returned to the call, in order
    chunks        \* the chunk texts the retrieval gave to a custom_retriever call

vars ==
    << user, sessionUser, caller, llm_ready, chain, data_loader, pending, query, outcome, intent,
       trace, responses, chunks >>

---------------------------------------------------------------------------
(* Python str primitives.                                                  *)

UpperLetters ==
    << "A", "B", "C", "D", "E", "F", "G", "H", "I", "J", "K", "L", "M",
       "N", "O", "P", "Q", "R", "S", "T", "U", "V", "W", "X", "Y", "Z" >>

LowerLetters ==
    << "a", "b", "c", "d", "e", "f", "g", "h", "i", "j", "k", "l", "m",
       "n", "o", "p", "q", "r", "s", "t", "u", "v", "w", "x", "y", "z" >>

Digits == << "0", "1", "2", "3", "4", "5", "6", "7", "8", "9" >>

Whitespace == { " ", "\n", "\t", "\r" }

SetMin(S) == CHOOSE x \in S : \A y \in S : x <= y

SetMax(S) == CHOOSE x \in S : \A y \in S : y <= x

\* str.lower() on one character: A-Z go to a-z, every other character of the
\* model's alphabet (digits, punctuation, symbols) has no lower-case form.
LowerChar(c) ==
    IF \E i \in 1..26 : UpperLetters[i] = c
    THEN LowerLetters[CHOOSE i \in 1..26 : UpperLetters[i] = c]
    ELSE c

\* str.lower()
Lower(s) == [i \in 1..Len(s) |-> LowerChar(s[i])]

\* str.strip(): leading and trailing whitespace removed
Strip(s) ==
    LET n == Len(s)
    IN  IF \A i \in 1..n : s[i] \in Whitespace THEN << >>
        ELSE LET first == CHOOSE i \in 1..n :
                            s[i] \notin Whitespace /\ \A j \in 1..(i - 1) : s[j] \in Whitespace
                 back  == CHOOSE k \in 0..(n - 1) :
                            s[n - k] \notin Whitespace /\ \A j \in 0..(k - 1) : s[n - j] \in Whitespace
             IN  SubSeq(s, first, n - back)

\* str.startswith(p)
StartsWith(s, p) == Len(s) >= Len(p) /\ SubSeq(s, 1, Len(p)) = p

\* p in s
Contains(s, p) == \E i \in 1..(Len(s) - Len(p) + 1) : SubSeq(s, i, i + Len(p) - 1) = p

\* any(term in s for term in terms)
ContainsAny(s, terms) == \E i \in 1..Len(terms) : Contains(s, terms[i])

\* str.count(p) for a non-empty p: the occurrences found scanning left to right,
\* each search resuming after the previous occurrence.  at is the set of places
\* where p occurs in s.
RECURSIVE CountFrom(_, _, _)
CountFrom(at, width, i) ==
    LET ahead == { m \in at : m >= i }
    IN  IF ahead = {} THEN 0 ELSE 1 + CountFrom(at, width, SetMin(ahead) + width)

Count(s, p) ==
    CountFrom({ i \in 1..(Len(s) - Len(p) + 1) : \A k \in 1..Len(p) : s[i + k - 1] = p[k] },
              Len(p), 1)

\* str.split(): the maximal runs of non-whitespace characters, left to right
Split(s) ==
    LET starts == { i \in 1..Len(s) :
                      s[i] \notin Whitespace /\ (i = 1 \/ s[i - 1] \in Whitespace) }
        EndOf(i) == SetMin({ j \in i..Len(s) :
                      j = Len(s) \/ s[j + 1] \in Whitespace })
        Nth(n)   == CHOOSE i \in starts : Cardinality({ j \in starts : j < i }) = n - 1
    IN  [n \in 1..Cardinality(starts) |-> SubSeq(s, Nth(n), EndOf(Nth(n)))]

\* sep.join(parts)
RECURSIVE Join(_, _)
Join(parts, sep) ==
    IF parts = << >> THEN << >>
    ELSE IF Len(parts) = 1 THEN parts[1]
    ELSE parts[1] \o sep \o Join(Tail(parts), sep)

\* str(n) of an int
RECURSIVE NatStr(_)
NatStr(n) == IF n < 10 THEN << Digits[n + 1] >> ELSE NatStr(n \div 10) \o << Digits[(n % 10) + 1] >>

IntStr(n) == IF n < 0 THEN << "-" >> \o NatStr(-n) ELSE NatStr(n)

---------------------------------------------------------------------------
(* Python float: float(token) and the str() of a float.  A finite value is  *)
(* num * 10^exp with the sign apart (Python keeps -0.0 and 0.0 distinct).   *)
(* The tokens of the model stay within the decimal digits a double holds    *)
(* exactly and within the range str() writes without an exponent.           *)

\* days = None
None == [cls |-> "None", neg |-> FALSE, num |-> 0, exp |-> 0]

Finite(neg, num, exp) == [cls |-> "finite", neg |-> neg, num |-> num, exp |-> exp]

NonFinite(cls, neg) == [cls |-> cls, neg |-> neg, num |-> 0, exp |-> 0]

RECURSIVE Pow10(_)
Pow10(k) == IF k = 0 THEN 1 ELSE 10 * Pow10(k - 1)

IsDigits(s) == \A i \in 1..Len(s) : \E d \in 1..10 : Digits[d] = s[i]

RECURSIVE DigitsVal(_)
DigitsVal(s) ==
    IF s = << >> THEN 0
    ELSE 10 * DigitsVal(SubSeq(s, 1, Len(s) - 1))
         + ((CHOOSE d \in 1..10 : Digits[d] = s[Len(s)]) - 1)

\* Word_inf is the text 'inf'
Word_inf ==
    << "i", "n", "f" >>
\* Word_infinity is the text 'infinity'
Word_infinity ==
    << "i", "n", "f", "i", "n", "i", "t", "y" >>
\* Word_nan is the text 'nan'
Word_nan ==
    << "n", "a", "n" >>

\* float(tok) of a token without whitespace: [ok |-> FALSE] is ValueError.
\* Grammar: [sign] ("inf" | "infinity" | "nan" | digits ["." [digits]] [exponent]
\* | "." digits [exponent]), letters in either case; exponent: "e" [sign] digits.
ParseFloat(tok) ==
    LET t      == Lower(tok)
        signed == t # << >> /\ t[1] \in { "+", "-" }
        neg    == signed /\ t[1] = "-"
        body   == IF signed THEN Tail(t) ELSE t
        es     == { i \in 1..Len(body) : body[i] = "e" }
        mant   == IF es = {} THEN body ELSE SubSeq(body, 1, SetMin(es) - 1)
        expo   == IF es = {} THEN << >> ELSE SubSeq(body, SetMin(es) + 1, Len(body))
        esign  == expo # << >> /\ expo[1] \in { "+", "-" }
        edig   == IF esign THEN Tail(expo) ELSE expo
        dots   == { i \in 1..Len(mant) : mant[i] = "." }
        ipart  == IF dots = {} THEN mant ELSE SubSeq(mant, 1, SetMin(dots) - 1)
        fpart  == IF dots = {} THEN << >> ELSE SubSeq(mant, SetMin(dots) + 1, Len(mant))
        mantOk == /\ Cardinality(dots) <= 1
                  /\ IsDigits(ipart) /\ IsDigits(fpart)
                  /\ Len(ipart) + Len(fpart) >= 1
        expOk  == es = {} \/ (Cardinality(es) = 1 /\ edig # << >> /\ IsDigits(edig))
        eval   == IF es = {} THEN 0
                  ELSE IF esign /\ expo[1] = "-" THEN 0 - DigitsVal(edig) ELSE DigitsVal(edig)
    IN  IF body = Word_inf \/ body = Word_infinity
            THEN [ok |-> TRUE, val |-> NonFinite("inf", neg)]
        ELSE IF body = Word_nan
            THEN [ok |-> TRUE, val |-> NonFinite("nan", neg)]
        ELSE IF mantOk /\ expOk
            THEN [ok |-> TRUE, val |-> Finite(neg, DigitsVal(ipart \o fpart), eval - Len(fpart))]
        ELSE [ok |-> FALSE, val |-> None]

\* bool(days): None and zero (0.0 and -0.0) are false, every other float, nan
\* and the infinities included, is true.
Truthy(v) == v.cls \in { "nan", "inf" } \/ (v.cls = "finite" /\ v.num # 0)

RECURSIVE StripZeros(_)
StripZeros(s) ==
    IF s # << >> /\ s[Len(s)] = "0" THEN StripZeros(SubSeq(s, 1, Len(s) - 1)) ELSE s

\* the k low decimal digits of n, leading zeros kept
RECURSIVE LowDigits(_, _)
LowDigits(n, k) ==
    IF k = 0 THEN << >> ELSE LowDigits(n \div 10, k - 1) \o << Digits[(n % 10) + 1] >>

\* str(v) of a float, as the f-string writes {days}: "2.0", "2.5", "-1.0",
\* "nan", "inf".
FloatStr(v) ==
    LET sign == IF v.neg THEN << "-" >> ELSE << >>
        k    == 0 - v.exp
        frac == StripZeros(LowDigits(v.num, k))
    IN  IF v.cls = "nan" THEN Word_nan
        ELSE IF v.cls = "inf" THEN sign \o Word_inf
        ELSE IF v.exp >= 0 THEN sign \o NatStr(v.num * Pow10(v.exp)) \o << ".", "0" >>
        ELSE sign \o NatStr(v.num \div Pow10(k)) \o << "." >>
                  \o (IF frac = << >> THEN << "0" >> ELSE frac)

---------------------------------------------------------------------------
(* The user record (a Python dict).  keys is the set of keys present; the   *)
(* value stored under an absent key is a fixed filler, never read.          *)

Fields == { "username", "grade", "remaining_leaves" }

Dict(keys, username, grade, remaining) ==
    [keys |-> keys,
     username |-> IF "username" \in keys THEN username ELSE << >>,
     grade |-> IF "grade" \in keys THEN grade ELSE << >>,
     remaining_leaves |-> IF "remaining_leaves" \in keys THEN remaining ELSE 0]

\* {}
EmptyDict == Dict({}, << >>, << >>, 0)

\* NA is the text 'N/A'
NA ==
    << "N", "/", "A" >>

\* str(user.get('remaining_leaves', 'N/A'))
RemainingOrNA(u) ==
    IF "remaining_leaves" \in u.keys THEN IntStr(u.remaining_leaves) ELSE NA

---------------------------------------------------------------------------
(* The texts of src/query_handler.py and src/rag_system.py.                 *)

\* hr_contact is the text 'hr@bankname.com'
hr_contact ==
    << "h", "r", "@", "b", "a", "n", "k", "n", "a", "m", "e", ".", "c", "o", "m" >>
\* ApplyPrefix is the text 'apply for leave'
ApplyPrefix ==
    << "a", "p", "p", "l", "y", " ", "f", "o", "r", " ", "l", "e", "a", "v", "e" >>
\* Term_leave_balance is the text 'leave balance'
Term_leave_balance ==
    << "l", "e", "a", "v", "e", " ", "b", "a", "l", "a", "n", "c", "e" >>
\* Term_remaining_leaves is the text 'remaining leaves'
Term_remaining_leaves ==
    << "r", "e", "m", "a", "i", "n", "i", "n", "g", " ", "l", "e", "a", "v", "e", "s" >>
\* Term_how_many_leaves is the text 'how many leaves'
Term_how_many_leaves ==
    << "h", "o", "w", " ", "m", "a", "n", "y", " ", "l", "e", "a", "v", "e", "s" >>
\* Term_my_leaves is the text 'my leaves'
Term_my_leaves ==
    << "m", "y", " ", "l", "e", "a", "v", "e", "s" >>
\* Term_hello is the text 'hello'
Term_hello ==
    << "h", "e", "l", "l", "o" >>
\* Term_hi is the text 'hi'
Term_hi ==
    << "h", "i" >>
\* Term_hey is the text 'hey'
Term_hey ==
    << "h", "e", "y" >>
\* Term_good_morning is the text 'good morning'
Term_good_morning ==
    << "g", "o", "o", "d", " ", "m", "o", "r", "n", "i", "n", "g" >>
\* Term_good_afternoon is the text 'good afternoon'
Term_good_afternoon ==
    << "g", "o", "o", "d", " ", "a", "f", "t", "e", "r", "n", "o", "o", "n" >>
\* Term_help is the text 'help'
Term_help ==
    << "h", "e", "l", "p" >>
\* Term_what_can_you_do is the text 'what can you do'
Term_what_can_you_do ==
    << "w", "h", "a", "t", " ", "c", "a", "n", " ", "y", "o", "u", " ", "d", "o" >>
\* Term_how_to_use is the text 'how to use'
Term_how_to_use ==
    << "h", "o", "w", " ", "t", "o", " ", "u", "s", "e" >>
\* Term_commands is the text 'commands'
Term_commands ==
    << "c", "o", "m", "m", "a", "n", "d", "s" >>
\* Term_thank_you is the text 'thank you'
Term_thank_you ==
    << "t", "h", "a", "n", "k", " ", "y", "o", "u" >>
\* Term_thanks is the text 'thanks'
Term_thanks ==
    << "t", "h", "a", "n", "k", "s" >>
\* Term_appreciate is the text 'appreciate'
Term_appreciate ==
    << "a", "p", "p", "r", "e", "c", "i", "a", "t", "e" >>
\* Term_leave is the text 'leave'
Term_leave ==
    << "l", "e", "a", "v", "e" >>

BalanceTerms ==
    << Term_leave_balance, Term_remaining_leaves, Term_how_many_leaves, Term_my_leaves >>

GreetingTerms ==
    << Term_hello, Term_hi, Term_hey, Term_good_morning, Term_good_afternoon >>

HelpTerms == << Term_help, Term_what_can_you_do, Term_how_to_use, Term_commands >>

ThanksTerms == << Term_thank_you, Term_thanks, Term_appreciate >>

\* BalancePrefix is the text '\U0001f4bc Your current leave balance: **'
BalancePrefix ==
    << "U+1F4BC", " ", "Y", "o", "u", "r", " ", "c", "u", "r", "r", "e", "n", "t", " ", "l",
       "e", "a", "v", "e", " ", "b", "a", "l", "a", "n", "c", "e", ":", " ", "*", "*" >>
\* DaysBoldSuffix is the text ' days**'
DaysBoldSuffix ==
    << " ", "d", "a", "y", "s", "*", "*" >>
\* GreetingPrefix is the text 'Hello '
GreetingPrefix ==
    << "H", "e", "l", "l", "o", " " >>
\* GreetingSuffix is the text "! \U0001f44b I'm here to help you with bank policy questions and leave applications. What can I assist you with today?"
GreetingSuffix ==
    << "!", " ", "U+1F44B", " ", "I", "'", "m", " ", "h", "e", "r", "e", " ", "t", "o", " ",
       "h", "e", "l", "p", " ", "y", "o", "u", " ", "w", "i", "t", "h", " ", "b", "a", "n",
       "k", " ", "p", "o", "l", "i", "c", "y", " ", "q", "u", "e", "s", "t", "i", "o", "n",
       "s", " ", "a", "n", "d", " ", "l", "e", "a", "v", "e", " ", "a", "p", "p", "l", "i",
       "c", "a", "t", "i", "o", "n", "s", ".", " ", "W", "h", "a", "t", " ", "c", "a", "n",
       " ", "I", " ", "a", "s", "s", "i", "s", "t", " ", "y", "o", "u", " ", "w", "i", "t",
       "h", " ", "t", "o", "d", "a", "y", "?" >>
\* ThanksText is the text "You're welcome! \U0001f60a Feel free to ask me anything else about bank policies or leave applications."
ThanksText ==
    << "Y", "o", "u", "'", "r", "e", " ", "w", "e", "l", "c", "o", "m", "e", "!", " ",
       "U+1F60A", " ", "F", "e", "e", "l", " ", "f", "r", "e", "e", " ", "t", "o", " ", "a",
       "s", "k", " ", "m", "e", " ", "a", "n", "y", "t", "h", "i", "n", "g", " ", "e", "l",
       "s", "e", " ", "a", "b", "o", "u", "t", " ", "b", "a", "n", "k", " ", "p", "o", "l",
       "i", "c", "i", "e", "s", " ", "o", "r", " ", "l", "e", "a", "v", "e", " ", "a", "p",
       "p", "l", "i", "c", "a", "t", "i", "o", "n", "s", "." >>
\* FallbackPrefix is the text "\U0001f914 I couldn't find a clear answer to your question in the bank policies. Please contact HR at **"
FallbackPrefix ==
    << "U+1F914", " ", "I", " ", "c", "o", "u", "l", "d", "n", "'", "t", " ", "f", "i", "n",
       "d", " ", "a", " ", "c", "l", "e", "a", "r", " ", "a", "n", "s", "w", "e", "r", " ",
       "t", "o", " ", "y", "o", "u", "r", " ", "q", "u", "e", "s", "t", "i", "o", "n", " ",
       "i", "n", " ", "t", "h", "e", " ", "b", "a", "n", "k", " ", "p", "o", "l", "i", "c",
       "i", "e", "s", ".", " ", "P", "l", "e", "a", "s", "e", " ", "c", "o", "n", "t", "a",
       "c", "t", " ", "H", "R", " ", "a", "t", " ", "*", "*" >>
\* FallbackRetrySuffix is the text '** for assistance, or try rephrasing your question.'
FallbackRetrySuffix ==
    << "*", "*", " ", "f", "o", "r", " ", "a", "s", "s", "i", "s", "t", "a", "n", "c", "e",
       ",", " ", "o", "r", " ", "t", "r", "y", " ", "r", "e", "p", "h", "r", "a", "s", "i",
       "n", "g", " ", "y", "o", "u", "r", " ", "q", "u", "e", "s", "t", "i", "o", "n", "." >>
\* FallbackRefineSuffix is the text '** for assistance.'
FallbackRefineSuffix ==
    << "*", "*", " ", "f", "o", "r", " ", "a", "s", "s", "i", "s", "t", "a", "n", "c", "e",
       "." >>
\* HandlerErrorPrefix is the text '\u26a0\ufe0f Sorry, there was an error processing your question: '
HandlerErrorPrefix ==
    << "U+26A0", "U+FE0F", " ", "S", "o", "r", "r", "y", ",", " ", "t", "h", "e", "r", "e",
       " ", "w", "a", "s", " ", "a", "n", " ", "e", "r", "r", "o", "r", " ", "p", "r", "o",
       "c", "e", "s", "s", "i", "n", "g", " ", "y", "o", "u", "r", " ", "q", "u", "e", "s",
       "t", "i", "o", "n", ":", " " >>
\* GuidanceText is the text "\u274c Please specify leave days like: 'apply for leave 2.5' or 'apply for leave 1'"
GuidanceText ==
    << "U+274C", " ", "P", "l", "e", "a", "s", "e", " ", "s", "p", "e", "c", "i", "f", "y",
       " ", "l", "e", "a", "v", "e", " ", "d", "a", "y", "s", " ", "l", "i", "k", "e", ":",
       " ", "'", "a", "p", "p", "l", "y", " ", "f", "o", "r", " ", "l", "e", "a", "v", "e",
       " ", "2", ".", "5", "'", " ", "o", "r", " ", "'", "a", "p", "p", "l", "y", " ", "f",
       "o", "r", " ", "l", "e", "a", "v", "e", " ", "1", "'" >>
\* SubmittedPrefix is the text '\u2705 **Leave Application Submitted Successfully!**\n\n\U0001f4ca **Details:**\n\u2022 Applied for: **'
SubmittedPrefix ==
    << "U+2705", " ", "*", "*", "L", "e", "a", "v", "e", " ", "A", "p", "p", "l", "i", "c",
       "a", "t", "i", "o", "n", " ", "S", "u", "b", "m", "i", "t", "t", "e", "d", " ", "S",
       "u", "c", "c", "e", "s", "s", "f", "u", "l", "l", "y", "!", "*", "*", "\n", "\n",
       "U+1F4CA", " ", "*", "*", "D", "e", "t", "a", "i", "l", "s", ":", "*", "*", "\n",
       "U+2022", " ", "A", "p", "p", "l", "i", "e", "d", " ", "f", "o", "r", ":", " ", "*",
       "*" >>
\* SubmittedMiddle is the text ' days**\n\u2022 Remaining leaves: **'
SubmittedMiddle ==
    << " ", "d", "a", "y", "s", "*", "*", "\n", "U+2022", " ", "R", "e", "m", "a", "i", "n",
       "i", "n", "g", " ", "l", "e", "a", "v", "e", "s", ":", " ", "*", "*" >>
\* SubmittedSuffix is the text ' days**\n\u2022 Status: **Pending Approval** \u23f3\n\nYou will receive confirmation once your application is reviewed.'
SubmittedSuffix ==
    << " ", "d", "a", "y", "s", "*", "*", "\n", "U+2022", " ", "S", "t", "a", "t", "u", "s",
       ":", " ", "*", "*", "P", "e", "n", "d", "i", "n", "g", " ", "A", "p", "p", "r", "o",
       "v", "a", "l", "*", "*", " ", "U+23F3", "\n", "\n", "Y", "o", "u", " ", "w", "i", "l",
       "l", " ", "r", "e", "c", "e", "i", "v", "e", " ", "c", "o", "n", "f", "i", "r", "m",
       "a", "t", "i", "o", "n", " ", "o", "n", "c", "e", " ", "y", "o", "u", "r", " ", "a",
       "p", "p", "l", "i", "c", "a", "t", "i", "o", "n", " ", "i", "s", " ", "r", "e", "v",
       "i", "e", "w", "e", "d", "." >>
\* LeaveFailedText is the text '\u274c Leave application failed. Please try again or contact HR.'
LeaveFailedText ==
    << "U+274C", " ", "L", "e", "a", "v", "e", " ", "a", "p", "p", "l", "i", "c", "a", "t",
       "i", "o", "n", " ", "f", "a", "i", "l", "e", "d", ".", " ", "P", "l", "e", "a", "s",
       "e", " ", "t", "r", "y", " ", "a", "g", "a", "i", "n", " ", "o", "r", " ", "c", "o",
       "n", "t", "a", "c", "t", " ", "H", "R", "." >>
\* ApplicationErrorPrefix is the text '\u274c **Application Error:** '
ApplicationErrorPrefix ==
    << "U+274C", " ", "*", "*", "A", "p", "p", "l", "i", "c", "a", "t", "i", "o", "n", " ",
       "E", "r", "r", "o", "r", ":", "*", "*", " " >>
\* FailedToApplyPrefix is the text '\u274c **Failed to apply for leave:** '
FailedToApplyPrefix ==
    << "U+274C", " ", "*", "*", "F", "a", "i", "l", "e", "d", " ", "t", "o", " ", "a", "p",
       "p", "l", "y", " ", "f", "o", "r", " ", "l", "e", "a", "v", "e", ":", "*", "*", " " >>
\* KeyErrorUsername is the text "'username'"
KeyErrorUsername ==
    << "'", "u", "s", "e", "r", "n", "a", "m", "e", "'" >>
\* BalanceLinePrefix is the text '\n\n\U0001f4bc **Your current leave balance:** '
BalanceLinePrefix ==
    << "\n", "\n", "U+1F4BC", " ", "*", "*", "Y", "o", "u", "r", " ", "c", "u", "r", "r", "e",
       "n", "t", " ", "l", "e", "a", "v", "e", " ", "b", "a", "l", "a", "n", "c", "e", ":",
       "*", "*", " " >>
\* DaysSuffix is the text ' days'
DaysSuffix ==
    << " ", "d", "a", "y", "s" >>
\* HelpText is the text "\U0001f916 **I'm your Bank Policy Assistant!** Here's what I can help you with:\n\n**\U0001f4cb Policy Questions:**\n\u2022 Medical/Health policies\n\u2022 Travel and transport allowances\n\u2022 Loan and advance policies\n\u2022 Performance bonuses\n\u2022 Exit procedures\n\n**\U0001f33f Leave Management:**\n\u2022 Check your leave balance\n\u2022 Apply for leave (e.g., 'apply for leave 2')\n\u2022 Leave policy information\n\n**\U0001f4a1 Examples:**\n\u2022 'What is the medical policy?'\n\u2022 'How do I get travel allowance?'\n\u2022 'Apply for leave 1.5'\n\u2022 'What is my leave balance?'\n\nJust ask me anything in natural language! \U0001f60a"
HelpText ==
    << "U+1F916", " ", "*", "*", "I", "'", "m", " ", "y", "o", "u", "r", " ", "B", "a", "n",
       "k", " ", "P", "o", "l", "i", "c", "y", " ", "A", "s", "s", "i", "s", "t", "a", "n",
       "t", "!", "*", "*", " ", "H", "e", "r", "e", "'", "s", " ", "w", "h", "a", "t", " ",
       "I", " ", "c", "a", "n", " ", "h", "e", "l", "p", " ", "y", "o", "u", " ", "w", "i",
       "t", "h", ":", "\n", "\n", "*", "*", "U+1F4CB", " ", "P", "o", "l", "i", "c", "y", " ",
       "Q", "u", "e", "s", "t", "i", "o", "n", "s", ":", "*", "*", "\n", "U+2022", " ", "M",
       "e", "d", "i", "c", "a", "l", "/", "H", "e", "a", "l", "t", "h", " ", "p", "o", "l",
       "i", "c", "i", "e", "s", "\n", "U+2022", " ", "T", "r", "a", "v", "e", "l", " ", "a",
       "n", "d", " ", "t", "r", "a", "n", "s", "p", "o", "r", "t", " ", "a", "l", "l", "o",
       "w", "a", "n", "c", "e", "s", "\n", "U+2022", " ", "L", "o", "a", "n", " ", "a", "n",
       "d", " ", "a", "d", "v", "a", "n", "c", "e", " ", "p", "o", "l", "i", "c", "i", "e",
       "s", "\n", "U+2022", " ", "P", "e", "r", "f", "o", "r", "m", "a", "n", "c", "e", " ",
       "b", "o", "n", "u", "s", "e", "s", "\n", "U+2022", " ", "E", "x", "i", "t", " ", "p",
       "r", "o", "c", "e", "d", "u", "r", "e", "s", "\n", "\n", "*", "*", "U+1F33F", " ", "L",
       "e", "a", "v", "e", " ", "M", "a", "n", "a", "g", "e", "m", "e", "n", "t", ":", "*",
       "*", "\n", "U+2022", " ", "C", "h", "e", "c", "k", " ", "y", "o", "u", "r", " ", "l",
       "e", "a", "v", "e", " ", "b", "a", "l", "a", "n", "c", "e", "\n", "U+2022", " ", "A",
       "p", "p", "l", "y", " ", "f", "o", "r", " ", "l", "e", "a", "v", "e", " ", "(", "e",
       ".", "g", ".", ",", " ", "'", "a", "p", "p", "l", "y", " ", "f", "o", "r", " ", "l",
       "e", "a", "v", "e", " ", "2", "'", ")", "\n", "U+2022", " ", "L", "e", "a", "v", "e",
       " ", "p", "o", "l", "i", "c", "y", " ", "i", "n", "f", "o", "r", "m", "a", "t", "i",
       "o", "n", "\n", "\n", "*", "*", "U+1F4A1", " ", "E", "x", "a", "m", "p", "l", "e", "s",
       ":", "*", "*", "\n", "U+2022", " ", "'", "W", "h", "a", "t", " ", "i", "s", " ", "t",
       "h", "e", " ", "m", "e", "d", "i", "c", "a", "l", " ", "p", "o", "l", "i", "c", "y",
       "?", "'", "\n", "U+2022", " ", "'", "H", "o", "w", " ", "d", "o", " ", "I", " ", "g",
       "e", "t", " ", "t", "r", "a", "v", "e", "l", " ", "a", "l", "l", "o", "w", "a", "n",
       "c", "e", "?", "'", "\n", "U+2022", " ", "'", "A", "p", "p", "l", "y", " ", "f", "o",
       "r", " ", "l", "e", "a", "v", "e", " ", "1", ".", "5", "'", "\n", "U+2022", " ", "'",
       "W", "h", "a", "t", " ", "i", "s", " ", "m", "y", " ", "l", "e", "a", "v", "e", " ",
       "b", "a", "l", "a", "n", "c", "e", "?", "'", "\n", "\n", "J", "u", "s", "t", " ", "a",
       "s", "k", " ", "m", "e", " ", "a", "n", "y", "t", "h", "i", "n", "g", " ", "i", "n",
       " ", "n", "a", "t", "u", "r", "a", "l", " ", "l", "a", "n", "g", "u", "a", "g", "e",
       "!", " ", "U+1F60A" >>
\* ProviderErrorPrefix is the text 'Error processing your query: '
ProviderErrorPrefix ==
    << "E", "r", "r", "o", "r", " ", "p", "r", "o", "c", "e", "s", "s", "i", "n", "g", " ",
       "y", "o", "u", "r", " ", "q", "u", "e", "r", "y", ":", " " >>
\* InitializingText is the text 'System initializing, please wait...'
InitializingText ==
    << "S", "y", "s", "t", "e", "m", " ", "i", "n", "i", "t", "i", "a", "l", "i", "z", "i",
       "n", "g", ",", " ", "p", "l", "e", "a", "s", "e", " ", "w", "a", "i", "t", ".", ".",
       "." >>
\* SentenceMark is the text '. '
SentenceMark ==
    << ".", " " >>
\* ChunkSeparator is the text '\n\n'
ChunkSeparator ==
    << "\n", "\n" >>

---------------------------------------------------------------------------
(* Bounds and inputs.                                                       *)

\* whitespace characters put before and after a query
MaxPad == 1

\* how far around the conciseness thresholds the provider's texts reach
Slack == 1

\* the longest chunk list enumerated in full
MaxChunks == 3

\* the thresholds of _invoke_gemini
MaxSentenceMarks == 4

MaxChars == 600

\* generation_config of the two provider calls; temperatures in tenths
PrimaryTemperature == 3

PrimaryMaxTokens == 800

SummaryTemperature == 3

SummaryMaxTokens == 400

\* top_k of get_reranked_chunks
RerankTopK == 5

\* Name_ali is the text 'ali'
Name_ali ==
    << "a", "l", "i" >>
\* Grade_g5 is the text 'G5'
Grade_g5 ==
    << "G", "5" >>

\* the records the directory can hold for the caller: the username and the
\* remaining leaves may be missing
UserDicts ==
    { Dict(keys, Name_ali, Grade_g5, n) :
        keys \in { k \in SUBSET Fields : "grade" \in k }, n \in { 5, 8 } }

\* Msg_quota is the text 'quota exceeded'
Msg_quota ==
    << "q", "u", "o", "t", "a", " ", "e", "x", "c", "e", "e", "d", "e", "d" >>
\* Msg_sheet is the text 'sheet unavailable'
Msg_sheet ==
    << "s", "h", "e", "e", "t", " ", "u", "n", "a", "v", "a", "i", "l", "a", "b", "l", "e" >>
\* Msg_balance is the text 'Insufficient leave balance'
Msg_balance ==
    << "I", "n", "s", "u", "f", "f", "i", "c", "i", "e", "n", "t", " ", "l", "e", "a", "v",
       "e", " ", "b", "a", "l", "a", "n", "c", "e" >>

\* authenticator.get_authenticated_user(): a record, None, or an exception
RefreshResults ==
    { [kind |-> "return", none |-> FALSE, value |-> d, msg |-> << >>] :
        d \in UserDicts \cup { EmptyDict } }
    \cup { [kind |-> "return", none |-> TRUE, value |-> EmptyDict, msg |-> << >>],
           [kind |-> "raise", none |-> FALSE, value |-> EmptyDict, msg |-> Msg_sheet] }

\* authenticator.apply_for_leave(username, days): a truth value or an exception
ApplyResults ==
    { [kind |-> "return", value |-> TRUE, exc |-> "", msg |-> << >>],
      [kind |-> "return", value |-> FALSE, exc |-> "", msg |-> << >>],
      [kind |-> "raise", value |-> FALSE, exc |-> "ValueError", msg |-> Msg_balance],
      [kind |-> "raise", value |-> FALSE, exc |-> "Exception", msg |-> Msg_sheet] }

\* Chunk_a is the text 'Annual leave is 20 days.'
Chunk_a ==
    << "A", "n", "n", "u", "a", "l", " ", "l", "e", "a", "v", "e", " ", "i", "s", " ", "2",
       "0", " ", "d", "a", "y", "s", "." >>
\* Chunk_b is the text 'Travel allowance is paid monthly.'
Chunk_b ==
    << "T", "r", "a", "v", "e", "l", " ", "a", "l", "l", "o", "w", "a", "n", "c", "e", " ",
       "i", "s", " ", "p", "a", "i", "d", " ", "m", "o", "n", "t", "h", "l", "y", "." >>

\* get_reranked_chunks / retriever.invoke: the page_content of the chunks, in
\* rank order, or an exception
RetrievalResults ==
    { [kind |-> "return", chunks |-> c, msg |-> << >>] :
        c \in { << >>, << Chunk_a, Chunk_b >> } }
    \cup { [kind |-> "raise", chunks |-> << >>, msg |-> Msg_sheet] }

\* n copies of the text s
RECURSIVE Times(_, _)
Times(n, s) == IF n <= 0 THEN << >> ELSE s \o Times(n - 1, s)

\* n times the character c
Fill(n, c) == [i \in 1..n |-> c]

\* Text_blank is the text ' \n '
Text_blank ==
    << " ", "\n", " " >>
\* Text_no_policy is the text 'This benefit is not available.'
Text_no_policy ==
    << "T", "h", "i", "s", " ", "b", "e", "n", "e", "f", "i", "t", " ", "i", "s", " ", "n",
       "o", "t", " ", "a", "v", "a", "i", "l", "a", "b", "l", "e", "." >>
\* Text_leave is the text 'Annual Leave is 20 days per year.'
Text_leave ==
    << "A", "n", "n", "u", "a", "l", " ", "L", "e", "a", "v", "e", " ", "i", "s", " ", "2",
       "0", " ", "d", "a", "y", "s", " ", "p", "e", "r", " ", "y", "e", "a", "r", "." >>
\* Text_sentence is the text 'Ok. '
Text_sentence ==
    << "O", "k", ".", " " >>

\* response.text of llm.generate_content: empty, blank, short answers, and
\* answers with MaxSentenceMarks -+ Slack sentence marks
BriefTexts ==
    { << >>, Text_blank, Text_no_policy, Text_leave }
    \cup { Times(k, Text_sentence) \o << "E", "n", "d", "." >> :
             k \in (MaxSentenceMarks - Slack)..(MaxSentenceMarks + Slack) }

\* answers of MaxChars -+ Slack characters, and one of MaxChars characters
\* between a leading blank and a trailing line break
LongTexts ==
    { Fill(n, "x") : n \in (MaxChars - Slack)..(MaxChars + Slack) }
    \cup { << " " >> \o Fill(MaxChars, "x") \o << "\n" >> }

\* llm.generate_content(...).text over the texts given: a text or an exception
LlmResults(texts) ==
    { [kind |-> "return", text |-> t, msg |-> << >>] : t \in texts }
    \cup { [kind |-> "raise", text |-> << >>, msg |-> Msg_quota] }

---------------------------------------------------------------------------
(* One entry of trace: an external call, its arguments and what it gave.    *)

Call(name) ==
    [call |-> name, prompt |-> "", username |-> << >>, days |-> None,
     temperature |-> 0, max_output_tokens |-> 0, top_k |-> 0,
     result |-> "return", exc |-> "", value |-> FALSE, none |-> FALSE,
     record |-> EmptyDict, reply |-> << >>]

\* the handler's state while a call runs; responses are the values query_policy
\* has returned to handle_query so far
State(u, su, tr, rs) == [user |-> u, sessionUser |-> su, trace |-> tr, responses |-> rs]

Called(st, c) == [st EXCEPT !.trace = Append(st.trace, c)]

\* a handler returning text in state st
Return(st, text) ==
    [user |-> st.user, sessionUser |-> st.sessionUser, trace |-> st.trace,
     responses |-> st.responses, raised |-> FALSE, exc |-> "", text |-> text]

\* a handler raising exc in state st
Raise(st, exc, msg) ==
    [user |-> st.user, sessionUser |-> st.sessionUser, trace |-> st.trace,
     responses |-> st.responses, raised |-> TRUE, exc |-> exc, text |-> msg]

StateOf(r) == State(r.user, r.sessionUser, r.trace, r.responses)

---------------------------------------------------------------------------
(* QueryHandler.                                                            *)

\* whatever the directory returns taken as the new record
RefreshUserDataAlways(st) ==
    { LET st1 == Called(st, [Call("get_authenticated_user") EXCEPT
                               !.result = r.kind, !.none = r.none,
                               !.record = r.value, !.reply = r.msg])
      IN  IF r.kind = "return"
          THEN [st1 EXCEPT !.user = r.value, !.sessionUser = r.value]
          ELSE st1
      : r \in RefreshResults }

\* _refresh_user_data: the states it can end in.  A truthy record replaces
\* self.user and st.session_state.user; None, an empty record and an exception
\* leave both as they were.
RefreshUserData(st) ==
    { LET st1 == Called(st, [Call("get_authenticated_user") EXCEPT
                               !.result = r.kind, !.none = r.none,
                               !.record = r.value, !.reply = r.msg])
      IN  IF r.kind = "return" /\ ~r.none /\ r.value.keys # {}
          THEN [st1 EXCEPT !.user = r.value, !.sessionUser = r.value]
          ELSE st1
      : r \in RefreshResults }

\* one day taken when no token is a number
RECURSIVE FirstNumberOrOne(_)
FirstNumberOrOne(parts) ==
    IF parts = << >> THEN Finite(FALSE, 1, 0)
    ELSE IF ParseFloat(Head(parts)).ok THEN ParseFloat(Head(parts)).val
    ELSE FirstNumberOrOne(Tail(parts))

\* the loop of _handle_leave_application: the first token that float() accepts
RECURSIVE FirstNumber(_)
FirstNumber(parts) ==
    IF parts = << >> THEN None
    ELSE IF ParseFloat(Head(parts)).ok THEN ParseFloat(Head(parts)).val
    ELSE FirstNumber(Tail(parts))

\* if not days
NoDays(days) == ~Truthy(days)

SubmittedText(days, u) ==
    SubmittedPrefix \o FloatStr(days) \o SubmittedMiddle \o RemainingOrNA(u) \o SubmittedSuffix

\* a refresh also after a refused application
AfterApplyRefreshOnFailure(st1, days, a) ==
    IF a.kind = "raise"
        THEN IF a.exc = "ValueError"
             THEN { Return(st1, ApplicationErrorPrefix \o a.msg) }
             ELSE { Return(st1, FailedToApplyPrefix \o a.msg) }
    ELSE IF a.value
        THEN { Return(st2, SubmittedText(days, st2.user)) : st2 \in RefreshUserData(st1) }
    ELSE { Return(st2, LeaveFailedText) : st2 \in RefreshUserData(st1) }

\* the confirmation given without the refresh
AfterApplyNoRefresh(st1, days, a) ==
    IF a.kind = "raise"
        THEN IF a.exc = "ValueError"
             THEN { Return(st1, ApplicationErrorPrefix \o a.msg) }
             ELSE { Return(st1, FailedToApplyPrefix \o a.msg) }
    ELSE IF a.value THEN { Return(st1, SubmittedText(days, st1.user)) }
    ELSE { Return(st1, LeaveFailedText) }

\* lines 88-100: apply_for_leave gave a; st1 is the state after the call
AfterApply(st1, days, a) ==
    IF a.kind = "raise"
        THEN IF a.exc = "ValueError"
             THEN { Return(st1, ApplicationErrorPrefix \o a.msg) }
             ELSE { Return(st1, FailedToApplyPrefix \o a.msg) }
    ELSE IF a.value
        THEN { Return(st2, SubmittedText(days, st2.user)) : st2 \in RefreshUserData(st1) }
    ELSE { Return(st1, LeaveFailedText) }

\* _handle_leave_application(query): the results it can give
HandleLeaveApplication(st, q) ==
    LET days == FirstNumber(Split(q))
    IN  IF NoDays(days) THEN { Return(st, GuidanceText) }
        ELSE IF "username" \notin st.user.keys
            THEN { Return(st, FailedToApplyPrefix \o KeyErrorUsername) }
        ELSE UNION { AfterApply(Called(st, [Call("apply_for_leave") EXCEPT
                                              !.username = st.user.username, !.days = days,
                                              !.result = a.kind, !.exc = a.exc,
                                              !.value = a.value, !.reply = a.msg]),
                                days, a)
                     : a \in ApplyResults }

\* not response or not response.strip()
Blank(text) == Strip(text) = << >>

\* _refine_policy_response(response)
RefinePolicyResponse(u, response) ==
    IF Blank(response) THEN FallbackPrefix \o hr_contact \o FallbackRefineSuffix
    ELSE IF Contains(Lower(response), Term_leave) /\ "remaining_leaves" \in u.keys
        THEN Strip(response \o BalanceLinePrefix \o IntStr(u.remaining_leaves) \o DaysSuffix)
    ELSE Strip(response)

---------------------------------------------------------------------------
(* PolicyRAGSystem.                                                         *)

\* the first top_k chunks only
RetrieveTopK(st, loader, r) ==
    LET st1 == Called(st, [(IF loader
                            THEN [Call("get_reranked_chunks") EXCEPT !.top_k = RerankTopK]
                            ELSE Call("retriever.invoke"))
                           EXCEPT !.result = r.kind])
    IN  IF r.kind = "raise" THEN Raise(st1, "Exception", r.msg)
        ELSE Return(st1, Join(IF Len(r.chunks) > RerankTopK
                              THEN SubSeq(r.chunks, 1, RerankTopK) ELSE r.chunks,
                              ChunkSeparator))

\* custom_retriever(query) when the retrieval call gives r: the reranked chunks
\* when a data loader is set, the plain retriever's otherwise; the context
\* joins the chunk texts.  A result with raised = TRUE is the exception of the
\* retrieval call.
Retrieve(st, loader, r) ==
    LET st1 == Called(st, [(IF loader
                            THEN [Call("get_reranked_chunks") EXCEPT !.top_k = RerankTopK]
                            ELSE Call("retriever.invoke"))
                           EXCEPT !.result = r.kind])
    IN  IF r.kind = "raise" THEN Raise(st1, "Exception", r.msg)
        ELSE Return(st1, Join(r.chunks, ChunkSeparator))

\* custom_retriever(query): the results it can give
CustomRetriever(st, loader) == { Retrieve(st, loader, r) : r \in RetrievalResults }

\* the thresholds taken as reached instead of exceeded
TooLongAtThreshold(result) ==
    Count(result, SentenceMark) >= MaxSentenceMarks \/ Len(result) >= MaxChars

\* result.count(". ") > 4 or len(result) > 600
TooLong(result) == Count(result, SentenceMark) > MaxSentenceMarks \/ Len(result) > MaxChars

\* response.text.strip() of one provider reply, and whether it is to be summarized
Stripped(r) ==
    [kind |-> r.kind, msg |-> r.msg, text |-> r.text,
     result |-> Strip(r.text), tooLong |-> r.kind = "return" /\ TooLong(Strip(r.text))]

\* the replies of a provider that answers briefly, and of one that also gives
\* the long texts
BriefReplies == { Stripped(r) : r \in LlmResults(BriefTexts) }

AllReplies == { Stripped(r) : r \in LlmResults(BriefTexts \cup LongTexts) }

\* the PolicyRAGSystem object: chain set or not, data_loader set or not, and
\* the replies its llm can give
Rag(ready, loader, replies) == [chain |-> ready, data_loader |-> loader, llm |-> replies]

PrimaryCall(p) ==
    [Call("generate_content") EXCEPT
       !.prompt = "question", !.temperature = PrimaryTemperature,
       !.max_output_tokens = PrimaryMaxTokens,
       !.result = p.kind, !.reply = IF p.kind = "raise" THEN p.msg ELSE p.text]

SummaryCall(s) ==
    [Call("generate_content") EXCEPT
       !.prompt = "summarization", !.temperature = SummaryTemperature,
       !.max_output_tokens = SummaryMaxTokens,
       !.result = s.kind, !.reply = IF s.kind = "raise" THEN s.msg ELSE s.text]

\* lines 142-159: the primary call gave the text p; st1 is the state after it
Summarize(st1, p, rag) ==
    IF p.tooLong
    THEN { IF s.kind = "raise"
           THEN Return(Called(st1, SummaryCall(s)), ProviderErrorPrefix \o s.msg)
           ELSE Return(Called(st1, SummaryCall(s)), s.result)
           : s \in rag.llm }
    ELSE { Return(st1, p.result) }

\* an exception of the primary call answered by an empty text
InvokeGeminiSilent(st, rag) ==
    UNION { IF p.kind = "raise"
            THEN { Return(Called(st, PrimaryCall(p)), << >>) }
            ELSE Summarize(Called(st, PrimaryCall(p)), p, rag)
            : p \in rag.llm }

\* _invoke_gemini(prompt): the results it can give.  An exception of either
\* provider call becomes the returned text.
InvokeGemini(st, rag) ==
    UNION { IF p.kind = "raise"
            THEN { Return(Called(st, PrimaryCall(p)), ProviderErrorPrefix \o p.msg) }
            ELSE Summarize(Called(st, PrimaryCall(p)), p, rag)
            : p \in rag.llm }

\* query_policy(question, user_grade): the chain is custom_retriever, then the
\* prompt, then _invoke_gemini; an exception on the way becomes the returned text.
QueryPolicy(st, rag) ==
    IF ~rag.chain THEN { Return(st, InitializingText) }
    ELSE UNION {
           IF c.raised THEN { Return(StateOf(c), ProviderErrorPrefix \o c.text) }
           ELSE InvokeGemini(StateOf(c), rag)
           : c \in CustomRetriever(st, rag.data_loader) }

---------------------------------------------------------------------------
(* QueryHandler.handle_query.                                               *)

\* query.lower().strip()
Normalize(q) == Strip(Lower(q))

\* the greeting keywords tried before the balance keywords
IntentGreetingFirst(q) ==
    LET query_lower == Normalize(q)
    IN  IF StartsWith(query_lower, ApplyPrefix) THEN "LeaveApply"
        ELSE IF ContainsAny(query_lower, GreetingTerms) THEN "Greeting"
        ELSE IF ContainsAny(query_lower, BalanceTerms) THEN "LeaveBalance"
        ELSE IF ContainsAny(query_lower, HelpTerms) THEN "Help"
        ELSE IF ContainsAny(query_lower, ThanksTerms) THEN "Thanks"
        ELSE "PolicyQuery"

\* the branch of handle_query a query takes
Intent(q) ==
    LET query_lower == Normalize(q)
    IN  IF StartsWith(query_lower, ApplyPrefix) THEN "LeaveApply"
        ELSE IF ContainsAny(query_lower, BalanceTerms) THEN "LeaveBalance"
        ELSE IF ContainsAny(query_lower, GreetingTerms) THEN "Greeting"
        ELSE IF ContainsAny(query_lower, HelpTerms) THEN "Help"
        ELSE IF ContainsAny(query_lower, ThanksTerms) THEN "Thanks"
        ELSE "PolicyQuery"

\* response = self.rag_system.query_policy(...): each value it can get, kept
\* in responses
Responses(st, rag) ==
    { [r EXCEPT !.responses = Append(@, r.text)] : r \in QueryPolicy(st, rag) }

\* a retry whatever the first response is
RetryAlways(first, rag) == Responses(StateOf(first), rag)

\* no retry
RetryNever(first, rag) == { first }

\* lines 53-55: one more query_policy when the first response is blank
RetryIfBlank(first, rag) ==
    IF Blank(first.text) THEN Responses(StateOf(first), rag) ELSE { first }

\* the user record refreshed before the policy answer
HandlePolicyQueryRefreshing(st, rag) ==
    { IF Blank(r.text)
      THEN Return(StateOf(r), FallbackPrefix \o hr_contact \o FallbackRetrySuffix)
      ELSE Return(StateOf(r), RefinePolicyResponse(r.user, r.text))
      : r \in UNION { RetryIfBlank(first, rag) :
                        first \in UNION { Responses(st1, rag) : st1 \in RefreshUserData(st) } } }

\* lines 50-64: query_policy, the retry, the fallback, the refinement
HandlePolicyQuery(st, rag) ==
    { IF Blank(r.text)
      THEN Return(StateOf(r), FallbackPrefix \o hr_contact \o FallbackRetrySuffix)
      ELSE Return(StateOf(r), RefinePolicyResponse(r.user, r.text))
      : r \in UNION { RetryIfBlank(first, rag) :
                        first \in Responses(st, rag) } }

\* handle_query(query): the results it can give
HandleQueryResults(st, q, rag) ==
    LET branch == Intent(q)
    IN  IF branch = "LeaveApply" THEN HandleLeaveApplication(st, Normalize(q))
        ELSE IF branch = "LeaveBalance"
            THEN { Return(st1, BalancePrefix \o RemainingOrNA(st1.user) \o DaysBoldSuffix) :
                     st1 \in RefreshUserData(st) }
        ELSE IF branch = "Greeting"
            THEN IF "username" \in st.user.keys
                 THEN { Return(st, GreetingPrefix \o st.user.username \o GreetingSuffix) }
                 ELSE { Raise(st, "KeyError", KeyErrorUsername) }
        ELSE IF branch = "Help" THEN { Return(st, HelpText) }
        ELSE IF branch = "Thanks" THEN { Return(st, ThanksText) }
        ELSE HandlePolicyQuery(st, rag)

---------------------------------------------------------------------------
(* The queries.                                                             *)

QueryBodies ==
    {
      \* 'apply for leave 2'
      << "a", "p", "p", "l", "y", " ", "f", "o", "r", " ", "l", "e", "a", "v", "e", " ", "2" >>,
      \* 'apply for leave 2.5'
      << "a", "p", "p", "l", "y", " ", "f", "o", "r", " ", "l", "e", "a", "v", "e", " ", "2",
         ".", "5" >>,
      \* 'apply for leave'
      << "a", "p", "p", "l", "y", " ", "f", "o", "r", " ", "l", "e", "a", "v", "e" >>,
      \* 'apply for leave two days'
      << "a", "p", "p", "l", "y", " ", "f", "o", "r", " ", "l", "e", "a", "v", "e", " ", "t",
         "w", "o", " ", "d", "a", "y", "s" >>,
      \* 'apply for leave 0'
      << "a", "p", "p", "l", "y", " ", "f", "o", "r", " ", "l", "e", "a", "v", "e", " ", "0" >>,
      \* 'apply for leave -1'
      << "a", "p", "p", "l", "y", " ", "f", "o", "r", " ", "l", "e", "a", "v", "e", " ", "-",
         "1" >>,
      \* 'apply for leave 40'
      << "a", "p", "p", "l", "y", " ", "f", "o", "r", " ", "l", "e", "a", "v", "e", " ", "4",
         "0" >>,
      \* 'apply for leave 0.0 3'
      << "a", "p", "p", "l", "y", " ", "f", "o", "r", " ", "l", "e", "a", "v", "e", " ", "0",
         ".", "0", " ", "3" >>,
      \* 'apply for leave x 1.5 7'
      << "a", "p", "p", "l", "y", " ", "f", "o", "r", " ", "l", "e", "a", "v", "e", " ", "x",
         " ", "1", ".", "5", " ", "7" >>,
      \* 'apply for leave nan'
      << "a", "p", "p", "l", "y", " ", "f", "o", "r", " ", "l", "e", "a", "v", "e", " ", "n",
         "a", "n" >>,
      \* 'apply for leave -inf'
      << "a", "p", "p", "l", "y", " ", "f", "o", "r", " ", "l", "e", "a", "v", "e", " ", "-",
         "i", "n", "f" >>,
      \* 'apply for leave 2days'
      << "a", "p", "p", "l", "y", " ", "f", "o", "r", " ", "l", "e", "a", "v", "e", " ", "2",
         "d", "a", "y", "s" >>,
      \* 'apply for leave .5'
      << "a", "p", "p", "l", "y", " ", "f", "o", "r", " ", "l", "e", "a", "v", "e", " ", ".",
         "5" >>,
      \* 'apply for leave 1e1'
      << "a", "p", "p", "l", "y", " ", "f", "o", "r", " ", "l", "e", "a", "v", "e", " ", "1",
         "e", "1" >>,
      \* 'apply for leave balance'
      << "a", "p", "p", "l", "y", " ", "f", "o", "r", " ", "l", "e", "a", "v", "e", " ", "b",
         "a", "l", "a", "n", "c", "e" >>,
      \* 'apply for leave 3 hello thanks'
      << "a", "p", "p", "l", "y", " ", "f", "o", "r", " ", "l", "e", "a", "v", "e", " ", "3",
         " ", "h", "e", "l", "l", "o", " ", "t", "h", "a", "n", "k", "s" >>,
      \* 'apply for leaves 2'
      << "a", "p", "p", "l", "y", " ", "f", "o", "r", " ", "l", "e", "a", "v", "e", "s", " ",
         "2" >>,
      \* 'please apply for leave 2'
      << "p", "l", "e", "a", "s", "e", " ", "a", "p", "p", "l", "y", " ", "f", "o", "r", " ",
         "l", "e", "a", "v", "e", " ", "2" >>,
      \* 'i want to apply for leave 2 of my leaves'
      << "i", " ", "w", "a", "n", "t", " ", "t", "o", " ", "a", "p", "p", "l", "y", " ", "f",
         "o", "r", " ", "l", "e", "a", "v", "e", " ", "2", " ", "o", "f", " ", "m", "y", " ",
         "l", "e", "a", "v", "e", "s" >>,
      \* 'what is my leave balance'
      << "w", "h", "a", "t", " ", "i", "s", " ", "m", "y", " ", "l", "e", "a", "v", "e", " ",
         "b", "a", "l", "a", "n", "c", "e" >>,
      \* 'remaining leaves'
      << "r", "e", "m", "a", "i", "n", "i", "n", "g", " ", "l", "e", "a", "v", "e", "s" >>,
      \* 'how many leaves do i have'
      << "h", "o", "w", " ", "m", "a", "n", "y", " ", "l", "e", "a", "v", "e", "s", " ", "d",
         "o", " ", "i", " ", "h", "a", "v", "e" >>,
      \* 'my leaves'
      << "m", "y", " ", "l", "e", "a", "v", "e", "s" >>,
      \* 'hello what is my leave balance'
      << "h", "e", "l", "l", "o", " ", "w", "h", "a", "t", " ", "i", "s", " ", "m", "y", " ",
         "l", "e", "a", "v", "e", " ", "b", "a", "l", "a", "n", "c", "e" >>,
      \* 'thanks for my leaves help'
      << "t", "h", "a", "n", "k", "s", " ", "f", "o", "r", " ", "m", "y", " ", "l", "e", "a",
         "v", "e", "s", " ", "h", "e", "l", "p" >>,
      \* 'hello'
      << "h", "e", "l", "l", "o" >>,
      \* 'hi'
      << "h", "i" >>,
      \* 'hey there'
      << "h", "e", "y", " ", "t", "h", "e", "r", "e" >>,
      \* 'good morning'
      << "g", "o", "o", "d", " ", "m", "o", "r", "n", "i", "n", "g" >>,
      \* 'good afternoon'
      << "g", "o", "o", "d", " ", "a", "f", "t", "e", "r", "n", "o", "o", "n" >>,
      \* 'this policy'
      << "t", "h", "i", "s", " ", "p", "o", "l", "i", "c", "y" >>,
      \* 'hello help thanks'
      << "h", "e", "l", "l", "o", " ", "h", "e", "l", "p", " ", "t", "h", "a", "n", "k", "s" >>,
      \* 'help'
      << "h", "e", "l", "p" >>,
      \* 'what can you do'
      << "w", "h", "a", "t", " ", "c", "a", "n", " ", "y", "o", "u", " ", "d", "o" >>,
      \* 'how to use'
      << "h", "o", "w", " ", "t", "o", " ", "u", "s", "e" >>,
      \* 'commands'
      << "c", "o", "m", "m", "a", "n", "d", "s" >>,
      \* 'help thanks'
      << "h", "e", "l", "p", " ", "t", "h", "a", "n", "k", "s" >>,
      \* 'thank you'
      << "t", "h", "a", "n", "k", " ", "y", "o", "u" >>,
      \* 'thanks'
      << "t", "h", "a", "n", "k", "s" >>,
      \* 'i appreciate it'
      << "i", " ", "a", "p", "p", "r", "e", "c", "i", "a", "t", "e", " ", "i", "t" >>,
      \* 'leave policy'
      << "l", "e", "a", "v", "e", " ", "p", "o", "l", "i", "c", "y" >>,
      \* 'loan'
      << "l", "o", "a", "n" >>
    }

UpperChar(c) ==
    IF \E i \in 1..26 : LowerLetters[i] = c
    THEN UpperLetters[CHOOSE i \in 1..26 : LowerLetters[i] = c]
    ELSE c

Upper(s) == [i \in 1..Len(s) |-> UpperChar(s[i])]

Pads == { Fill(n, " ") : n \in 0..MaxPad }

\* every body as written and in capitals, with up to MaxPad blanks around it
Queries ==
    { p[1] \o b \o p[2] :
        b \in QueryBodies \cup { Upper(x) : x \in QueryBodies },
        p \in { pp \in Pads \X Pads : Len(pp[1]) + Len(pp[2]) <= MaxPad } }

---------------------------------------------------------------------------
NoOutcome == [raised |-> FALSE, exc |-> "", text |-> << >>]

\* QueryHandler(authenticated_user, rag_system, authenticator) on a freshly
\* constructed PolicyRAGSystem(retriever, config, data_loader)
Init ==
    /\ user \in UserDicts
    /\ sessionUser = user
    /\ caller = user
    /\ llm_ready = FALSE
    /\ chain = FALSE
    /\ data_loader \in BOOLEAN
    /\ pending = FALSE
    /\ query = << >>
    /\ outcome = NoOutcome
    /\ intent = ""
    /\ trace = << >>
    /\ responses = << >>
    /\ chunks = << >>

\* initialize_llm, when genai.GenerativeModel succeeds (when it raises, nothing
\* changes)
InitializeLlm ==
    /\ ~pending /\ ~llm_ready
    /\ llm_ready' = TRUE
    /\ UNCHANGED << user, sessionUser, caller, chain, data_loader, pending, query, outcome, intent,
                   trace, responses, chunks >>

\* setup_qa_chain, when it does not raise "LLM or retriever not initialized"
SetupQaChain ==
    /\ ~pending /\ llm_ready /\ ~chain
    /\ chain' = TRUE
    /\ UNCHANGED << user, sessionUser, caller, llm_ready, data_loader, pending, query, outcome, intent,
                   trace, responses, chunks >>

\* handle_query(q), from its call to its return or raise
HandleQuery ==
    /\ ~pending
    /\ \E q \in Queries :
         \E r \in HandleQueryResults(State(user, sessionUser, << >>, << >>), q,
                                   Rag(chain, data_loader, BriefReplies)) :
           /\ user' = r.user
           /\ sessionUser' = r.sessionUser
           /\ caller' = user
           /\ query' = q
           /\ intent' = Intent(q)
           /\ outcome' = [raised |-> r.raised, exc |-> r.exc, text |-> r.text]
           /\ trace' = r.trace
           /\ responses' = r.responses
    /\ pending' = TRUE
    /\ UNCHANGED chunks
    /\ UNCHANGED << llm_ready, chain, data_loader >>

\* process_query after handle_query: the response (or the caught exception's
\* message) goes to the chat history and the page reruns
ProcessQueryDone ==
    /\ pending
    /\ pending' = FALSE
    /\ UNCHANGED chunks
    /\ query' = << >>
    /\ outcome' = NoOutcome
    /\ intent' = ""
    /\ trace' = << >>
    /\ responses' = << >>
    /\ caller' = user
    /\ UNCHANGED << user, sessionUser, llm_ready, chain, data_loader >>

Next ==
    \/ InitializeLlm
    \/ SetupQaChain
    \/ HandleQuery
    \/ ProcessQueryDone

Spec == Init /\ [][Next]_vars

---------------------------------------------------------------------------
(* query_policy on its own, with a provider that also gives the long texts. *)

PolicyQuestions == { q \in Queries : Intent(q) = "PolicyQuery" }

InitSynth ==
    /\ user = Dict(Fields, Name_ali, Grade_g5, 5)
    /\ sessionUser = user
    /\ caller = user
    /\ chain \in BOOLEAN
    /\ llm_ready = chain
    /\ data_loader \in BOOLEAN
    /\ pending = FALSE
    /\ query = << >>
    /\ outcome = NoOutcome
    /\ intent = ""
    /\ trace = << >>
    /\ responses = << >>
    /\ chunks = << >>

\* query_policy(q, grade), from its call to its return
QueryPolicyCall ==
    /\ ~pending
    /\ \E q \in PolicyQuestions :
         \E r \in QueryPolicy(State(user, sessionUser, << >>, << >>),
                              Rag(chain, data_loader, AllReplies)) :
           /\ query' = q
           /\ intent' = "PolicyQuery"
           /\ outcome' = [raised |-> r.raised, exc |-> r.exc, text |-> r.text]
           /\ trace' = r.trace
           /\ responses' = << r.text >>
    /\ pending' = TRUE
    /\ UNCHANGED chunks
    /\ UNCHANGED << user, sessionUser, caller, llm_ready, chain, data_loader >>

NextSynth == QueryPolicyCall

SpecSynth == InitSynth /\ [][NextSynth]_vars

---------------------------------------------------------------------------
(* The classification of handle_query on its own, over every query.         *)

InitRoute ==
    /\ user = Dict(Fields, Name_ali, Grade_g5, 5)
    /\ sessionUser = user
    /\ caller = user
    /\ chain = FALSE
    /\ llm_ready = FALSE
    /\ data_loader = FALSE
    /\ pending = FALSE
    /\ query \in Queries
    /\ outcome = NoOutcome
    /\ intent = ""
    /\ trace = << >>
    /\ responses = << >>
    /\ chunks = << >>

\* lines 26-49 of handle_query on the query at hand
Classify ==
    /\ ~pending
    /\ intent' = Intent(query)
    /\ pending' = TRUE
    /\ UNCHANGED chunks
    /\ UNCHANGED << user, sessionUser, caller, llm_ready, chain, data_loader, query, outcome, trace,
                    responses >>

NextRoute == Classify

SpecRoute == InitRoute /\ [][NextRoute]_vars

---------------------------------------------------------------------------
(* custom_retriever on its own, over chunk lists of every shape.            *)

ChunkTexts == { Chunk_a, Chunk_b, << >> }

\* the chunk lists of length 0..n
RECURSIVE ChunkListsUpTo(_)
ChunkListsUpTo(n) ==
    IF n = 0 THEN { << >> }
    ELSE ChunkListsUpTo(n - 1)
         \cup { Append(l, c) : l \in { x \in ChunkListsUpTo(n - 1) : Len(x) = n - 1 },
                               c \in ChunkTexts }

\* what the retrieval call can give: up to MaxChunks chunks, repeated and
\* empty ones included, one list longer than top_k, or an exception
ChunkResults ==
    { [kind |-> "return", chunks |-> c, msg |-> << >>] :
        c \in ChunkListsUpTo(MaxChunks)
              \cup { [i \in 1..(RerankTopK + 1) |-> IF i = 2 THEN Chunk_b ELSE Chunk_a] } }
    \cup { [kind |-> "raise", chunks |-> << >>, msg |-> Msg_sheet] }

InitRetrieve ==
    /\ user = Dict(Fields, Name_ali, Grade_g5, 5)
    /\ sessionUser = user
    /\ caller = user
    /\ chain = TRUE
    /\ llm_ready = TRUE
    /\ data_loader \in BOOLEAN
    /\ pending = FALSE
    /\ query = << >>
    /\ outcome = NoOutcome
    /\ intent = ""
    /\ trace = << >>
    /\ responses = << >>
    /\ chunks = << >>

\* custom_retriever(q), from its call to its return or raise
CustomRetrieverCall ==
    /\ ~pending
    /\ \E q \in PolicyQuestions, r \in ChunkResults :
         LET c == Retrieve(State(user, sessionUser, << >>, << >>), data_loader, r)
         IN  /\ query' = q
             /\ chunks' = r.chunks
             /\ outcome' = [raised |-> c.raised, exc |-> c.exc, text |-> c.text]
             /\ trace' = c.trace
    /\ intent' = "PolicyQuery"
    /\ pending' = TRUE
    /\ UNCHANGED << user, sessionUser, caller, llm_ready, chain, data_loader, responses >>

NextRetrieve == CustomRetrieverCall

SpecRetrieve == InitRetrieve /\ [][NextRetrieve]_vars

---------------------------------------------------------------------------
(* Reading a finished call.                                                 *)

IsRetrieval(c) == c.call \in { "get_reranked_chunks", "retriever.invoke" }

IsPrimary(c) == c.call = "generate_content" /\ c.prompt = "question"

IsSummary(c) == c.call = "generate_content" /\ c.prompt = "summarization"

IsRefresh(c) == c.call = "get_authenticated_user"

IsApply(c) == c.call = "apply_for_leave"

Retrievals == { i \in 1..Len(trace) : IsRetrieval(trace[i]) }

Primaries == { i \in 1..Len(trace) : IsPrimary(trace[i]) }

Summaries == { i \in 1..Len(trace) : IsSummary(trace[i]) }

\* the fallback of handle_query, lines 59-62
\* HrFallbackText is the text "\U0001f914 I couldn't find a clear answer to your question in the bank policies. Please contact HR at **hr@bankname.com** for assistance, or try rephrasing your question."
HrFallbackText ==
    << "U+1F914", " ", "I", " ", "c", "o", "u", "l", "d", "n", "'", "t", " ", "f", "i", "n",
       "d", " ", "a", " ", "c", "l", "e", "a", "r", " ", "a", "n", "s", "w", "e", "r", " ",
       "t", "o", " ", "y", "o", "u", "r", " ", "q", "u", "e", "s", "t", "i", "o", "n", " ",
       "i", "n", " ", "t", "h", "e", " ", "b", "a", "n", "k", " ", "p", "o", "l", "i", "c",
       "i", "e", "s", ".", " ", "P", "l", "e", "a", "s", "e", " ", "c", "o", "n", "t", "a",
       "c", "t", " ", "H", "R", " ", "a", "t", " ", "*", "*", "h", "r", "@", "b", "a", "n",
       "k", "n", "a", "m", "e", ".", "c", "o", "m", "*", "*", " ", "f", "o", "r", " ", "a",
       "s", "s", "i", "s", "t", "a", "n", "c", "e", ",", " ", "o", "r", " ", "t", "r", "y",
       " ", "r", "e", "p", "h", "r", "a", "s", "i", "n", "g", " ", "y", "o", "u", "r", " ",
       "q", "u", "e", "s", "t", "i", "o", "n", "." >>

---------------------------------------------------------------------------
\* C1: every handle_query call returns exactly one non-empty text and never
\* raises, whatever the query, the user record (a missing field included) and
\* the faults of the directory, the retrieval and the provider.
C1_NeverRaises == pending => (~outcome.raised /\ outcome.text # << >>)

\* C2 as claimed: a call makes at most one retrieval call, one primary provider
\* call and at most one more provider call, which is either the retry or the
\* summarization, never both.
C2_OneRetrievalOneExtraCall ==
    pending =>
      /\ Cardinality(Retrievals) <= 1
      /\ Cardinality(Primaries) + Cardinality(Summaries) <= 2

\* C2 as amended: a call makes at most two synthesis attempts, the second only
\* after a blank first response; each attempt makes one retrieval call, at most
\* one primary call (none when the retrieval fails) and at most one
\* summarization call, which directly follows a primary call that returned.
\* Retry and summarization can fall in the same call: at most four provider calls.
C2_CallBudget ==
    pending =>
      /\ Cardinality(Retrievals) <= 2
      /\ Cardinality(Primaries) <= Cardinality(Retrievals)
      /\ Cardinality(Summaries) <= Cardinality(Primaries)
      /\ Cardinality(Primaries) + Cardinality(Summaries) <= 4
      /\ \A i \in Summaries : i - 1 \in Primaries /\ trace[i - 1].result = "return"
      /\ \A i \in Primaries : i - 1 \in Retrievals /\ trace[i - 1].result = "return"
      /\ Cardinality(Retrievals) = 2 => (Len(responses) = 2 /\ Strip(responses[1]) = << >>)

\* C2 witness: a call with the retry and a summarization in both attempts
C2_RetryAndSummaries ==
    /\ pending
    /\ Cardinality(Retrievals) = 2
    /\ Cardinality(Primaries) = 2
    /\ Cardinality(Summaries) = 2

\* C3: on a policy query with the chain set up, the synthesis (retrieval through
\* provider call) runs once, and once more exactly when its first result is
\* blank, never a third time; when the second result is blank too the call
\* returns the fixed fallback naming the HR address.
C3_RetryOnceThenFallback ==
    (pending /\ intent = "PolicyQuery" /\ chain) =>
      /\ Len(responses) \in { 1, 2 }
      /\ Cardinality(Retrievals) = Len(responses)
      /\ Len(responses) = 2 <=> Strip(responses[1]) = << >>
      /\ (Len(responses) = 2 /\ Strip(responses[2]) = << >>) =>
            /\ ~outcome.raised
            /\ outcome.text = HrFallbackText
            /\ Contains(outcome.text, hr_contact)

\* C3 witness: two blank synthesis results, answered by the fallback
C3_TwoBlankResponses ==
    /\ pending /\ intent = "PolicyQuery"
    /\ Len(responses) = 2
    /\ Strip(responses[1]) = << >> /\ Strip(responses[2]) = << >>
    /\ Cardinality(Retrievals) = 2
    /\ outcome.text = HrFallbackText

---------------------------------------------------------------------------
(* The intents as section 4.1 of the specification lists them.              *)

\* Spec_ApplyPrefix is the text 'apply for leave'
Spec_ApplyPrefix ==
    << "a", "p", "p", "l", "y", " ", "f", "o", "r", " ", "l", "e", "a", "v", "e" >>
Spec_BalanceKeywords ==
    {
      \* 'leave balance'
      << "l", "e", "a", "v", "e", " ", "b", "a", "l", "a", "n", "c", "e" >>,
      \* 'remaining leaves'
      << "r", "e", "m", "a", "i", "n", "i", "n", "g", " ", "l", "e", "a", "v", "e", "s" >>,
      \* 'how many leaves'
      << "h", "o", "w", " ", "m", "a", "n", "y", " ", "l", "e", "a", "v", "e", "s" >>,
      \* 'my leaves'
      << "m", "y", " ", "l", "e", "a", "v", "e", "s" >>
    }
Spec_GreetingKeywords ==
    {
      \* 'hello'
      << "h", "e", "l", "l", "o" >>,
      \* 'hi'
      << "h", "i" >>,
      \* 'hey'
      << "h", "e", "y" >>,
      \* 'good morning'
      << "g", "o", "o", "d", " ", "m", "o", "r", "n", "i", "n", "g" >>,
      \* 'good afternoon'
      << "g", "o", "o", "d", " ", "a", "f", "t", "e", "r", "n", "o", "o", "n" >>
    }
Spec_HelpKeywords ==
    {
      \* 'help'
      << "h", "e", "l", "p" >>,
      \* 'what can you do'
      << "w", "h", "a", "t", " ", "c", "a", "n", " ", "y", "o", "u", " ", "d", "o" >>,
      \* 'how to use'
      << "h", "o", "w", " ", "t", "o", " ", "u", "s", "e" >>,
      \* 'commands'
      << "c", "o", "m", "m", "a", "n", "d", "s" >>
    }
Spec_ThanksKeywords ==
    {
      \* 'thank you'
      << "t", "h", "a", "n", "k", " ", "y", "o", "u" >>,
      \* 'thanks'
      << "t", "h", "a", "n", "k", "s" >>,
      \* 'appreciate'
      << "a", "p", "p", "r", "e", "c", "i", "a", "t", "e" >>
    }

IntentNames == << "LeaveApply", "LeaveBalance", "Greeting", "Help", "Thanks", "PolicyQuery" >>

\* rule k of the list applies to the normalized query n
RuleApplies(n, k) ==
    CASE k = 1 -> StartsWith(n, Spec_ApplyPrefix)
      [] k = 2 -> \E w \in Spec_BalanceKeywords : Contains(n, w)
      [] k = 3 -> \E w \in Spec_GreetingKeywords : Contains(n, w)
      [] k = 4 -> \E w \in Spec_HelpKeywords : Contains(n, w)
      [] k = 5 -> \E w \in Spec_ThanksKeywords : Contains(n, w)
      [] OTHER -> TRUE

FirstRule(n) == CHOOSE k \in 1..6 : RuleApplies(n, k) /\ \A j \in 1..(k - 1) : ~RuleApplies(n, j)

\* C4: the intent is the first rule of the list that the lower-cased, trimmed
\* query satisfies, and is the same for the query in capitals, in lower case
\* and between blanks; a balance keyword without the leave prefix gives
\* LeaveBalance.
C4_FirstMatchWins ==
    pending =>
      LET n == Strip(Lower(query))
      IN  /\ intent = IntentNames[FirstRule(n)]
          /\ \A lead \in Pads, trail \in Pads :
               /\ Intent(lead \o Upper(query) \o trail) = intent
               /\ Intent(lead \o Lower(query) \o trail) = intent
          /\ (RuleApplies(n, 2) /\ ~RuleApplies(n, 1)) => intent = "LeaveBalance"

\* C4 witness: a query in capitals between blanks that holds a balance keyword
\* and a greeting keyword, classified LeaveBalance
C4_BalanceBeatsGreeting ==
    /\ pending
    /\ query # Lower(query) /\ query # Strip(query)
    /\ ~RuleApplies(Strip(Lower(query)), 1)
    /\ RuleApplies(Strip(Lower(query)), 2)
    /\ RuleApplies(Strip(Lower(query)), 3)
    /\ intent = "LeaveBalance"

---------------------------------------------------------------------------
\* C5: _invoke_gemini issues the summarization call (temperature 0.3, 400
\* tokens) exactly when the stripped primary text has more than 4 ". " or more
\* than 600 characters; then the stripped summary is returned, otherwise the
\* stripped primary text, with no second call.
C5_SummarizeIffTooLong ==
    pending =>
      /\ \A i \in Summaries : i - 1 \in Primaries
      /\ \A i \in Primaries :
           trace[i].result = "return" =>
             LET result == Strip(trace[i].reply)
                 over   == Count(result, << ".", " " >>) > 4 \/ Len(result) > 600
                 issued == i + 1 \in Summaries
             IN  /\ issued <=> over
                 /\ issued =>
                      /\ i + 1 = Len(trace)
                      /\ trace[i + 1].temperature = 3
                      /\ trace[i + 1].max_output_tokens = 400
                      /\ trace[i + 1].result = "return" =>
                           outcome.text = Strip(trace[i + 1].reply)
                 /\ ~issued => (i = Len(trace) /\ outcome.text = result)

\* C5 witness: a primary text of more than 600 characters and at most 4 sentence
\* marks, replaced by its summary
C5_LongAnswerSummarized ==
    /\ pending
    /\ \E i \in Primaries :
         /\ trace[i].result = "return"
         /\ Len(Strip(trace[i].reply)) > 600
         /\ Count(Strip(trace[i].reply), << ".", " " >>) <= 4
         /\ i + 1 \in Summaries
         /\ trace[i + 1].result = "return"
         /\ outcome.text = Strip(trace[i + 1].reply)
         /\ outcome.text # Strip(trace[i].reply)
         /\ outcome.text # << >>

---------------------------------------------------------------------------
\* C6: an exception of the primary or of the summarization provider call is not
\* raised further; the synthesis returns a non-empty text holding the
\* exception's message, no retry follows, and the call's answer holds the
\* message instead of the HR fallback.
C6_ProviderFailureBecomesText ==
    pending =>
      \A i \in Primaries \cup Summaries :
        trace[i].result = "raise" =>
          /\ ~outcome.raised
          /\ i = Len(trace)
          /\ responses # << >>
          /\ responses[Len(responses)] # << >>
          /\ Contains(responses[Len(responses)], trace[i].reply)
          /\ Contains(outcome.text, trace[i].reply)
          /\ outcome.text # HrFallbackText

\* C6 witness: the summarization call raised and the answer holds its message
C6_SummaryFailureAnswered ==
    /\ pending
    /\ \E i \in Summaries :
         /\ trace[i].result = "raise"
         /\ trace[i].reply # << >>
         /\ Contains(outcome.text, trace[i].reply)

---------------------------------------------------------------------------
(* Leave application.                                                       *)

\* the tokens of the normalized query
Tokens(q) == Split(Strip(Lower(q)))

\* the places of the tokens float() accepts
NumberTokens(q) == { i \in 1..Len(Tokens(q)) : ParseFloat(Tokens(q)[i]).ok }

\* Lit_days is the text ' days'
Lit_days ==
    << " ", "d", "a", "y", "s" >>
\* Lit_PendingApproval is the text 'Pending Approval'
Lit_PendingApproval ==
    << "P", "e", "n", "d", "i", "n", "g", " ", "A", "p", "p", "r", "o", "v", "a", "l" >>

\* C7: a leave-apply query with a token that parses as a float calls
\* apply_for_leave exactly once, with the caller's username and the value of
\* the first such token, whatever that value is.
C7_ApplyCalledWithFirstNumber ==
    (/\ pending
     /\ intent = "LeaveApply"
     /\ "username" \in caller.keys
     /\ NumberTokens(query) # {})
    => LET applies == { i \in 1..Len(trace) : IsApply(trace[i]) }
       IN  /\ Cardinality(applies) = 1
           /\ \A i \in applies :
                /\ trace[i].username = caller.username
                /\ trace[i].days = ParseFloat(Tokens(query)[SetMin(NumberTokens(query))]).val

\* C8: a query that starts with the leave prefix and has no token that parses
\* as a number is answered by the usage guidance, with no directory call and
\* the user record, in the handler and in the session, as it was.
C8_NoNumberGivesGuidance ==
    (/\ pending
     /\ StartsWith(Strip(Lower(query)), Spec_ApplyPrefix)
     /\ NumberTokens(query) = {})
    => /\ ~outcome.raised
       /\ outcome.text = GuidanceText
       /\ trace = << >>
       /\ user = caller
       /\ sessionUser = caller

\* C8 witness: such a query, answered by the guidance
C8_GuidanceGiven ==
    /\ pending
    /\ StartsWith(Strip(Lower(query)), Spec_ApplyPrefix)
    /\ Len(Tokens(query)) > 3
    /\ NumberTokens(query) = {}
    /\ outcome.text = GuidanceText
    /\ trace = << >>

---------------------------------------------------------------------------
\* the balance line _refine_policy_response appends
BalanceLine(u) == BalanceLinePrefix \o IntStr(u.remaining_leaves) \o DaysSuffix

\* C9: refining an answer that mentions "leave", for a user with a known
\* balance, appends one balance line, and refining the result again changes
\* nothing.
C9_RefineIdempotent ==
    (/\ pending /\ intent = "PolicyQuery" /\ responses # << >>
     /\ Contains(Lower(responses[Len(responses)]), Term_leave)
     /\ "remaining_leaves" \in user.keys)
    => LET once == RefinePolicyResponse(user, responses[Len(responses)])
       IN  /\ once = Strip(responses[Len(responses)] \o BalanceLine(user))
           /\ outcome.text = once
           /\ RefinePolicyResponse(user, once) = once

---------------------------------------------------------------------------
\* C10: when apply_for_leave returns true, one refresh follows; the answer is
\* the confirmation, with the requested days, the remaining leaves of the
\* refreshed record (of the record held before, when the refresh raises or
\* gives nothing) and "Pending Approval"; it is never an exception.
C10_ConfirmationAfterRefresh ==
    (/\ pending
     /\ \E i \in 1..Len(trace) :
          IsApply(trace[i]) /\ trace[i].result = "return" /\ trace[i].value)
    => /\ Len(trace) = 2 /\ IsApply(trace[1]) /\ IsRefresh(trace[2])
       /\ ~outcome.raised
       /\ LET r     == trace[2]
              fresh == r.result = "return" /\ ~r.none /\ r.record.keys # {}
              snap  == IF fresh THEN r.record ELSE caller
          IN  /\ user = snap
              /\ Contains(outcome.text, FloatStr(trace[1].days) \o Lit_days)
              /\ "remaining_leaves" \in snap.keys =>
                   Contains(outcome.text, IntStr(snap.remaining_leaves) \o Lit_days)
              /\ Contains(outcome.text, Lit_PendingApproval)

\* C10 witness: an accepted application whose refresh raised, confirmed with
\* the balance held before
C10_ConfirmedWithStaleBalance ==
    /\ pending
    /\ Len(trace) = 2
    /\ IsApply(trace[1]) /\ trace[1].result = "return" /\ trace[1].value
    /\ IsRefresh(trace[2]) /\ trace[2].result = "raise"
    /\ user = caller
    /\ "remaining_leaves" \in user.keys
    /\ Contains(outcome.text, IntStr(user.remaining_leaves) \o Lit_days)
    /\ Contains(outcome.text, Lit_PendingApproval)

---------------------------------------------------------------------------
\* the refusals of _handle_leave_application, lines 100-105
Rejected(text) ==
    \/ text = LeaveFailedText
    \/ StartsWith(text, ApplicationErrorPrefix)
    \/ StartsWith(text, FailedToApplyPrefix)

\* the confirmation of lines 91-98
Submitted(text) == StartsWith(text, SubmittedPrefix)

\* C11: when apply_for_leave returns false or raises, the answer is a failure
\* message (with the exception's message when one was raised), nothing is
\* raised, no refresh is made and the user record is as it was; an answer is
\* never both the confirmation and a refusal.
C11_RefusedApplication ==
    pending =>
      /\ ~(Submitted(outcome.text) /\ Rejected(outcome.text))
      /\ \A i \in 1..Len(trace) :
           (IsApply(trace[i]) /\ (trace[i].result = "raise" \/ ~trace[i].value)) =>
             /\ Len(trace) = 1
             /\ ~outcome.raised
             /\ Rejected(outcome.text)
             /\ ~Submitted(outcome.text)
             /\ ~Contains(outcome.text, Lit_PendingApproval)
             /\ trace[i].result = "raise" => Contains(outcome.text, trace[i].reply)
             /\ user = caller
             /\ sessionUser = caller

\* C11 witness: apply_for_leave raised and the answer holds its message
C11_RaisedApplicationRefused ==
    /\ pending
    /\ Len(trace) = 1
    /\ IsApply(trace[1]) /\ trace[1].result = "raise" /\ trace[1].reply # << >>
    /\ Rejected(outcome.text)
    /\ Contains(outcome.text, trace[1].reply)
    /\ user = caller

---------------------------------------------------------------------------
\* Lit_NA is the text 'N/A'
Lit_NA ==
    << "N", "/", "A" >>

\* C12: a leave-balance query makes exactly one refresh; when it raises or gives
\* no user the record held before is kept; the answer is the balance text with
\* the remaining leaves of the record held after the refresh, or N/A when the
\* record has none.
C12_BalanceAfterOneRefresh ==
    (pending /\ intent = "LeaveBalance") =>
      /\ Len(trace) = 1 /\ IsRefresh(trace[1])
      /\ ~outcome.raised
      /\ LET r     == trace[1]
             fresh == r.result = "return" /\ ~r.none /\ r.record.keys # {}
             snap  == IF fresh THEN r.record ELSE caller
         IN  /\ user = snap
             /\ outcome.text =
                  BalancePrefix
                  \o (IF "remaining_leaves" \in snap.keys
                      THEN IntStr(snap.remaining_leaves) ELSE Lit_NA)
                  \o DaysBoldSuffix

\* C12 witness: the refresh raised and the balance of the record held before is
\* reported
C12_StaleBalanceReported ==
    /\ pending /\ intent = "LeaveBalance"
    /\ Len(trace) = 1 /\ IsRefresh(trace[1]) /\ trace[1].result = "raise"
    /\ user = caller
    /\ "remaining_leaves" \in caller.keys
    /\ Contains(outcome.text, IntStr(caller.remaining_leaves))
    /\ ~outcome.raised

---------------------------------------------------------------------------
\* the texts with a blank line between each two
RECURSIVE BlankLineJoined(_)
BlankLineJoined(texts) ==
    IF texts = << >> THEN << >>
    ELSE IF Len(texts) = 1 THEN texts[1]
    ELSE BlankLineJoined(SubSeq(texts, 1, Len(texts) - 1))
         \o << "\n", "\n" >> \o texts[Len(texts)]

\* C13: custom_retriever makes one retrieval call, the reranking with top_k = 5
\* when a data loader is set and the plain retriever otherwise; the context
\* is every chunk text given, in order, with a blank line between them, and
\* is empty when no chunk is given.
C13_ContextIsChunksJoined ==
    pending =>
      /\ Len(trace) = 1
      /\ IF data_loader
         THEN trace[1].call = "get_reranked_chunks" /\ trace[1].top_k = 5
         ELSE trace[1].call = "retriever.invoke"
      /\ trace[1].result = "return" =>
           /\ ~outcome.raised
           /\ outcome.text = BlankLineJoined(chunks)
           /\ chunks = << >> => outcome.text = << >>

\* C13 witness: more than five reranked chunks, one of them twice, all in the
\* context
C13_LongRankedListKept ==
    /\ pending /\ data_loader
    /\ Len(chunks) > 5
    /\ \E i, j \in 1..Len(chunks) : i # j /\ chunks[i] = chunks[j] /\ chunks[i] # << >>
    /\ trace[1].call = "get_reranked_chunks"
    /\ outcome.text = BlankLineJoined(chunks)
    /\ outcome.text # << >>

---------------------------------------------------------------------------
\* C14: the answers to a greeting and to a thanks query both hold the caller's
\* username.
C14_GreetingAndThanksNameTheUser ==
    (pending /\ intent \in { "Greeting", "Thanks" } /\ "username" \in caller.keys)
    => /\ ~outcome.raised
       /\ Contains(outcome.text, caller.username)

\* C14: the part that holds: the greeting of a user with a username names them
C14_GreetingNamesTheUser ==
    /\ pending /\ intent = "Greeting"
    /\ "username" \in caller.keys
    /\ ~outcome.raised
    /\ Contains(outcome.text, caller.username)

---------------------------------------------------------------------------
\* the directory calls of the call at hand
Refreshes == { i \in 1..Len(trace) : IsRefresh(trace[i]) }

Applies == { i \in 1..Len(trace) : IsApply(trace[i]) }

\* C15: every call makes at most one refresh and at most one apply_for_leave,
\* the latter on a leave application only; a greeting, help, thanks or policy
\* query makes no directory call and leaves the user record as it was; the
\* record changes only by the refresh of a leave-balance query or of an
\* accepted leave application, and never between calls.
C15_DirectoryCallsAndFrame ==
    /\ ~pending => (user = caller /\ trace = << >>)
    /\ pending =>
         /\ Cardinality(Refreshes) <= 1
         /\ Cardinality(Applies) <= 1
         /\ Applies # {} => intent = "LeaveApply"
         /\ intent \in { "Greeting", "Help", "Thanks", "PolicyQuery" } =>
              (Refreshes = {} /\ Applies = {} /\ user = caller)
         /\ user # caller =>
              /\ \E i \in Refreshes : trace[i].result = "return" /\ trace[i].record = user
              /\ \/ intent = "LeaveBalance"
                 \/ /\ intent = "LeaveApply"
                    /\ \E i \in Applies : trace[i].result = "return" /\ trace[i].value

\* C15 witness: an accepted leave application whose refresh changed the
\* remaining leaves
C15_BalanceChangedByAcceptedApplication ==
    /\ pending /\ intent = "LeaveApply"
    /\ Cardinality(Refreshes) = 1 /\ Cardinality(Applies) = 1
    /\ "remaining_leaves" \in user.keys /\ "remaining_leaves" \in caller.keys
    /\ user.remaining_leaves # caller.remaining_leaves

===========================================================================
